---- MODULE Spec2Model ----
(***************************************************************************)
(* seqdat: a model of src/seqdat/project.py (class Project and the module  *)
(* functions get_existing_info_sheet, cat_fastqgz, walk).                  *)
(*                                                                         *)
(* Text (file names, sample ids, documents) is a sequence of characters.   *)
(* Words whose inner letters no operation looks at ("fastq", "gz", "raw",  *)
(* " Additional Info", ...) are written as one character.                  *)
(***************************************************************************)
EXTENDS Integers, Sequences, FiniteSets, TLC

VARIABLES data, out, meta, readme, projdir, proj, ret

vars == <<data, out, meta, readme, projdir, proj, ret>>

----------------------------------------------------------------------------
(* Bounds *)

MaxFiles == 3
MaxLines == 3

----------------------------------------------------------------------------
(* Python str and pathlib operations, as the code uses them *)

\* needle in s  (str.__contains__)
Contains(needle, s) ==
    \E i \in 1..(Len(s) - Len(needle) + 1) :
        SubSeq(s, i, i + Len(needle) - 1) = needle

\* s.endswith(suf)
EndsWith(s, suf) ==
    /\ Len(suf) <= Len(s)
    /\ SubSeq(s, Len(s) - Len(suf) + 1, Len(s)) = suf

\* index of the first occurrence of character c in s, 0 when there is none
FirstIndex(s, c) ==
    IF \E i \in 1..Len(s) : s[i] = c
    THEN CHOOSE i \in 1..Len(s) : s[i] = c /\ \A j \in 1..(i - 1) : s[j] # c
    ELSE 0

RECURSIVE Split(_, _)
\* s.split(c) for a one-character separator c
Split(s, c) ==
    LET i == FirstIndex(s, c) IN
    IF i = 0 THEN <<s>>
    ELSE <<SubSeq(s, 1, i - 1)>> \o Split(SubSeq(s, i + 1, Len(s)), c)

RECURSIVE LStrip(_, _)
\* s.lstrip(c)
LStrip(s, c) ==
    IF s # <<>> /\ s[1] = c THEN LStrip(Tail(s), c) ELSE s

\* pathlib.PurePath.suffixes of a file name
Suffixes(name) ==
    IF EndsWith(name, <<".">>) THEN <<>>
    ELSE LET parts == Split(LStrip(name, "."), ".") IN
         [i \in 1..(Len(parts) - 1) |-> <<".">> \o parts[i + 1]]

\* the code point order of the characters that occur in names
CharRank ==
    [c \in {".", "1", "2", "A", "B", "R", "_", "fastq", "gz", "p", "raw", "txt", "v"} |->
        CASE c = "." -> 46 [] c = "1" -> 49 [] c = "2" -> 50
          [] c = "A" -> 65 [] c = "B" -> 66 [] c = "R" -> 82
          [] c = "_" -> 95 [] c = "fastq" -> 102 [] c = "gz" -> 103
          [] c = "p" -> 112 [] c = "raw" -> 114 [] c = "txt" -> 116
          [] c = "v" -> 118]

RECURSIVE StrLess(_, _)
\* a < b for Python str
StrLess(a, b) ==
    IF a = <<>> THEN b # <<>>
    ELSE IF b = <<>> THEN FALSE
    ELSE IF a[1] = b[1] THEN StrLess(Tail(a), Tail(b))
    ELSE CharRank[a[1]] < CharRank[b[1]]

RECURSIVE Sorted(_)
\* sorted(S) for a set S of str
Sorted(S) ==
    IF S = {} THEN <<>>
    ELSE LET m == CHOOSE x \in S : \A y \in S \ {x} : StrLess(x, y)
         IN <<m>> \o Sorted(S \ {m})

\* set(seq)
ToSet(seq) == {seq[i] : i \in 1..Len(seq)}

\* the orders in which a directory scan can deliver the files of S
Orders(S) ==
    {o \in [1..Cardinality(S) -> S] : \A i, j \in 1..Cardinality(S) : o[i] = o[j] => i = j}

----------------------------------------------------------------------------
(* The file system under <database>/<name>/ and the output directory *)

FastqGz == <<".", "fastq", ".", "gz">>

\* a file of the data directory: the sub-directory it is in, its name, its bytes
DataFile(d, n, b) == [dir |-> d, name |-> n, bytes |-> b]

FileUniverse ==
    { DataFile(<<>>,      <<"A", "_", "R", "1", "_", "1">> \o FastqGz,           <<1>>),
      DataFile(<<"d">>,   <<"A", "_", "R", "1", "_", "2">> \o FastqGz,           <<2, 3>>),
      DataFile(<<>>,      <<"A", "_", "R", "2", "_", "1">> \o FastqGz,           <<4>>),
      DataFile(<<"d", "e">>, <<"B", "_", "R", "1", "_", "1">> \o FastqGz,        <<5>>),
      DataFile(<<>>,      <<"B", "_", "1">> \o FastqGz,                          <<>>),
      DataFile(<<>>,      <<"B", ".", "v", "_", "R", "1", "_", "1">> \o FastqGz, <<6>>),
      DataFile(<<"d">>,   <<"A", "_", "R", "1", "_", "1", ".", "txt">>,          <<7>>) }

AbsentDir == [exists |-> FALSE, files |-> {}]
Dir(fs) == [exists |-> TRUE, files |-> fs]

Absent == [exists |-> FALSE, content |-> <<>>]
File(c) == [exists |-> TRUE, content |-> c]

\* the data directories the download can leave behind
DataDirs == {Dir(fs) : fs \in {s \in SUBSET FileUniverse : Cardinality(s) <= MaxFiles}}

\* Path.iterdir(): the entries directly inside the directory `path`
IterFiles(path) == {f \in data.files : f.dir = path}
IterDirs(path) ==
    {SubSeq(f.dir, 1, Len(path) + 1) :
        f \in {g \in data.files : Len(g.dir) > Len(path) /\ SubSeq(g.dir, 1, Len(path)) = path}}

RECURSIVE walk(_)
\* walk(path): every file below path, sub-directories entered recursively
walk(path) ==
    IterFiles(path) \cup UNION {walk(d) : d \in IterDirs(path)}

\* path_to_data.glob("**/*.fastq.gz")
glob == {f \in data.files : EndsWith(f.name, FastqGz)}

----------------------------------------------------------------------------
(* Project objects *)

\* Python None in a str attribute, and in the samples attribute
None == "None"
NoneList == [none |-> TRUE, items |-> <<>>]
List(l) == [none |-> FALSE, items |-> l]

\* `not samples`: None and [] are both false
Falsy(samples) == samples.none \/ samples.items = <<>>

ProjectName == "p1"
Owners == {"o1", "o2"}
RunTypes == {"rt1"}

\* Project.__init__
Project(name, owner, run_type, samples) ==
    [name |-> name, owner |-> owner, run_type |-> run_type, samples |-> samples]

\* the result of the last operation
Ret0 ==
    [op |-> "new", exit |-> 0, asked |-> FALSE, answer |-> FALSE, wrote |-> FALSE,
     paired |-> FALSE, prefix |-> <<>>, suffix |-> <<>>, files |-> <<>>, cat |-> <<>>,
     raised |-> ""]

----------------------------------------------------------------------------
(* meta.yml: a document of key: value lines *)

YNull == [tag |-> "null", str |-> "", seq |-> <<>>]
YStr(s) == [tag |-> "str", str |-> s, seq |-> <<>>]
YSeq(l) == [tag |-> "seq", str |-> "", seq |-> l]

FieldOrder == <<"name", "owner", "run_type", "samples">>

\* the YAML node of one attribute value
YamlNode(k, v) ==
    IF k = "samples" THEN (IF v.none THEN YNull ELSE YSeq(v.items))
    ELSE (IF v = None THEN YNull ELSE YStr(v))

\* the attribute value of one YAML node
YamlValue(k, n) ==
    IF k = "samples" THEN (IF n.tag = "null" THEN NoneList ELSE List(n.seq))
    ELSE (IF n.tag = "null" THEN None ELSE n.str)

\* yaml.dump(metadata): one line per key of the dict, in insertion order
yaml_dump(metadata) ==
    LET keys == SelectSeq(FieldOrder, LAMBDA k : k \in DOMAIN metadata)
    IN [i \in 1..Len(keys) |-> [key |-> keys[i], node |-> YamlNode(keys[i], metadata[keys[i]])]]

\* yaml.load_file(metapath): the dict of the document's lines
yaml_load(doc) ==
    [k \in {doc[i].key : i \in 1..Len(doc)} |->
        LET i == CHOOSE j \in 1..Len(doc) : doc[j].key = k
        IN YamlValue(k, doc[i].node)]

----------------------------------------------------------------------------
(* Project.from_prompt, Project.from_metadata *)

\* from_prompt: asks name, owner and run type; an existing project directory
\* needs a confirmation, without it the process exits and builds no project
from_prompt(owner, run_type, answer) ==
    IF projdir /\ ~answer
    THEN /\ proj' = proj
         /\ ret' = [Ret0 EXCEPT !.op = "from_prompt", !.asked = TRUE, !.answer = FALSE]
    ELSE /\ proj' = Project(ProjectName, owner, run_type, NoneList)
         /\ ret' = [Ret0 EXCEPT !.op = "from_prompt", !.asked = projdir, !.answer = answer]

\* the dict from_metadata builds the project from
loaded_metadata ==
    IF meta.exists THEN yaml_load(meta.content)
    ELSE [name |-> ProjectName, owner |-> None, run_type |-> None]

\* cls(**metadata) that does not pass samples on
from_dict_without_samples(md) ==
    [name |-> md["name"], owner |-> md["owner"],
     run_type |-> IF "run_type" \in DOMAIN md THEN md["run_type"] ELSE None,
     samples |-> NoneList]

\* cls(**metadata): absent keywords take the defaults of __init__
from_dict(md) ==
    Project(md["name"], md["owner"],
            IF "run_type" \in DOMAIN md THEN md["run_type"] ELSE None,
            IF "samples" \in DOMAIN md THEN md["samples"] ELSE NoneList)

from_metadata ==
    IF ~projdir
    THEN /\ proj' = proj
         /\ ret' = [Ret0 EXCEPT !.op = "from_metadata", !.exit = 1]
    ELSE /\ proj' = from_dict(loaded_metadata)
         /\ ret' = [Ret0 EXCEPT !.op = "from_metadata"]

----------------------------------------------------------------------------
(* Project.save_metadata, Project.update_metadata *)

\* self.__dict__.copy()
instance_dict(p) ==
    [name |-> p.name, owner |-> p.owner, run_type |-> p.run_type, samples |-> p.samples]

\* save_metadata that writes whatever the answer is
save_metadata_ignoring_answer(p, answer) ==
    LET metadata == instance_dict(p) IN
    IF meta.exists
    THEN IF yaml_load(meta.content) = metadata
         THEN [meta |-> meta, wrote |-> FALSE, asked |-> FALSE]
         ELSE [meta |-> File(yaml_dump(metadata)), wrote |-> TRUE, asked |-> TRUE]
    ELSE [meta |-> File(yaml_dump(metadata)), wrote |-> TRUE, asked |-> FALSE]

\* save_metadata that does not compare the record with the file first
save_metadata_without_compare(p, answer) ==
    LET metadata == instance_dict(p) IN
    IF meta.exists
    THEN IF answer
         THEN [meta |-> File(yaml_dump(metadata)), wrote |-> TRUE, asked |-> TRUE]
         ELSE [meta |-> meta, wrote |-> FALSE, asked |-> TRUE]
    ELSE [meta |-> File(yaml_dump(metadata)), wrote |-> TRUE, asked |-> FALSE]

\* save_metadata for project p; answer is what Confirm.ask returns when asked.
\* The result: the metadata file, whether it was written, whether it asked.
save_metadata(p, answer) ==
    LET metadata == instance_dict(p) IN
    IF meta.exists
    THEN IF yaml_load(meta.content) = metadata
         THEN [meta |-> meta, wrote |-> FALSE, asked |-> FALSE]
         ELSE IF answer
              THEN [meta |-> File(yaml_dump(metadata)), wrote |-> TRUE, asked |-> TRUE]
              ELSE [meta |-> meta, wrote |-> FALSE, asked |-> TRUE]
    ELSE [meta |-> File(yaml_dump(metadata)), wrote |-> TRUE, asked |-> FALSE]

SaveMetadata(answer) ==
    LET r == save_metadata(proj, answer) IN
    /\ meta' = r.meta
    /\ projdir' = TRUE
    /\ ret' = [Ret0 EXCEPT !.op = "save_metadata", !.asked = r.asked,
                           !.answer = answer, !.wrote = r.wrote]
    /\ UNCHANGED <<data, out, readme, proj>>

\* _update_attrs
update_attrs(p, updated) ==
    [p EXCEPT !.owner = updated.owner, !.run_type = updated.run_type]

\* update_metadata: prompts for every attribute but name and samples
UpdateMetadata(owner, run_type, answer) ==
    LET p == update_attrs(proj, [owner |-> owner, run_type |-> run_type])
        r == save_metadata(p, answer)
    IN /\ proj' = p
       /\ meta' = r.meta
       /\ projdir' = TRUE
       /\ ret' = [Ret0 EXCEPT !.op = "update_metadata", !.asked = r.asked,
                              !.answer = answer, !.wrote = r.wrote]
       /\ UNCHANGED <<data, out, readme>>

FromPrompt(owner, run_type, answer) ==
    /\ from_prompt(owner, run_type, answer)
    /\ UNCHANGED <<data, out, meta, readme, projdir>>

FromMetadata ==
    /\ from_metadata
    /\ UNCHANGED <<data, out, meta, readme, projdir>>

----------------------------------------------------------------------------
(* Project.identify_samples *)

\* f.name.split("_")[0]
sample_of(f) == Split(f.name, "_")[1]

\* sorted(set([f.name.split("_")[0] for f in files if f.suffixes == [".fastq", ".gz"]]))
sample_list(files) ==
    LET kept == SelectSeq(files, LAMBDA f : Suffixes(f.name) = << <<".", "fastq">>, <<".", "gz">> >>)
        ids == [i \in 1..Len(kept) |-> sample_of(kept[i])]
    IN Sorted(ToSet(ids))

\* identify_samples on project p; order is the order in which walk yields the files
identify_samples(p, order) ==
    IF ~data.exists
    THEN p       \* FileNotFoundError from iterdir, caught: self.samples is not assigned
    ELSE [p EXCEPT !.samples = List(sample_list(order))]

IdentifySamples(order) ==
    /\ proj' = identify_samples(proj, order)
    /\ ret' = [Ret0 EXCEPT !.op = "identify_samples"]
    /\ UNCHANGED <<data, out, meta, readme, projdir>>

----------------------------------------------------------------------------
(* cat_fastqgz and Project.move_data *)

OutFile(n, b) == [name |-> n, bytes |-> b]

\* open(name, "wb"): the file is created, or truncated when it exists
open_wb(dir, n) == {f \in dir : f.name # n} \cup {OutFile(n, <<>>)}

\* shutil.copyfileobj(in_f, out_f): the bytes are appended to the open output
copyfileobj(dir, n, bytes) ==
    {IF f.name = n THEN OutFile(n, f.bytes \o bytes) ELSE f : f \in dir}

RECURSIVE copy_files(_, _, _)
\* for fastqgz in files: copy it to the open output n
copy_files(dir, n, files) ==
    IF files = <<>> THEN dir
    ELSE copy_files(copyfileobj(dir, n, Head(files).bytes), n, Tail(files))

R1Marker == <<"_", "R", "1", "_">>
R2Marker == <<"_", "R", "2", "_">>

\* cat_fastqgz that opens the R2 output only when there is an R2 file
cat_fastqgz_lazy_open(sample, files, dir, prefix, suffix, paired_end) ==
    LET r1_files == SelectSeq(files, LAMBDA f : Contains(R1Marker, f.name))
        r2_files == SelectSeq(files, LAMBDA f : Contains(R2Marker, f.name))
        r1_name == sample \o <<".", "R", "1", ".", "raw">> \o FastqGz
        r2_name == prefix \o sample \o <<".", "R", "2">> \o suffix \o FastqGz
        un_name == sample \o <<".", "raw">> \o FastqGz
    IN IF paired_end
       THEN LET d1 == copy_files(open_wb(dir, r1_name), r1_name, r1_files)
            IN [files |-> IF r2_files = <<>> THEN d1
                          ELSE copy_files(open_wb(d1, r2_name), r2_name, r2_files),
                exit |-> 0]
       ELSE IF r2_files # <<>>
            THEN [files |-> dir, exit |-> 1]
            ELSE [files |-> copy_files(open_wb(dir, un_name), un_name, files), exit |-> 0]

\* cat_fastqgz: dir is the content of the output directory; the result is its
\* content afterwards and the exit status (0: returned, 1: sys.exit(1))
cat_fastqgz(sample, files, dir, prefix, suffix, paired_end) ==
    LET r1_files == SelectSeq(files, LAMBDA f : Contains(R1Marker, f.name))
        r2_files == SelectSeq(files, LAMBDA f : Contains(R2Marker, f.name))
        r1_name == sample \o <<".", "R", "1", ".", "raw">> \o FastqGz
        r2_name == prefix \o sample \o <<".", "R", "2">> \o suffix \o FastqGz
        un_name == sample \o <<".", "raw">> \o FastqGz
    IN IF paired_end
       THEN LET d1 == copy_files(open_wb(dir, r1_name), r1_name, r1_files)
            IN [files |-> copy_files(open_wb(d1, r2_name), r2_name, r2_files), exit |-> 0]
       ELSE IF r2_files # <<>>
            THEN [files |-> dir, exit |-> 1]
            ELSE [files |-> copy_files(open_wb(dir, un_name), un_name, files), exit |-> 0]

RECURSIVE sample_files(_, _)
\* the dict sample -> files that move_data fills with setdefault(...).append(file):
\* a sequence of items in insertion order
sample_files(acc, files) ==
    IF files = <<>> THEN acc
    ELSE LET f == Head(files)
             s == sample_of(f)
             acc1 == IF \E i \in 1..Len(acc) : acc[i].sample = s
                     THEN [i \in 1..Len(acc) |->
                             IF acc[i].sample = s
                             THEN [acc[i] EXCEPT !.files = Append(@, f)]
                             ELSE acc[i]]
                     ELSE Append(acc, [sample |-> s, files |-> <<f>>])
         IN sample_files(acc1, Tail(files))

RECURSIVE move_loop(_, _, _, _, _, _)
\* for sample, files in sample_files.items(): cat_fastqgz(...)
\* sys.exit inside cat_fastqgz ends the loop
move_loop(items, dir, cat, prefix, suffix, paired_end) ==
    IF items = <<>> THEN [files |-> dir, exit |-> 0, cat |-> cat]
    ELSE LET it == Head(items)
             r == cat_fastqgz(it.sample, it.files, dir, prefix, suffix, paired_end)
         IN IF r.exit # 0
            THEN [files |-> r.files, exit |-> r.exit, cat |-> Append(cat, it.sample)]
            ELSE move_loop(Tail(items), r.files, Append(cat, it.sample),
                           prefix, suffix, paired_end)

\* out_path.mkdir(parents=True, exist_ok=True) would never raise
mkdir_exist_ok == FALSE

\* out_path.mkdir(parents=True): TRUE when it raises FileExistsError
mkdir_fails == out.exists

\* move_data; order is the order in which the directory scans (the walk of
\* identify_samples, then the glob) deliver the files
MoveData(prefix, suffix, paired_end, order) ==
    LET worder == SelectSeq(order, LAMBDA f : f \in walk(<<>>))
        gorder == SelectSeq(order, LAMBDA f : f \in glob)
        p1 == IF Falsy(proj.samples) THEN identify_samples(proj, worder) ELSE proj
        r == move_loop(sample_files(<<>>, gorder), {}, <<>>, prefix, suffix, paired_end)
    IN /\ proj' = p1
       /\ IF Falsy(p1.samples)
          THEN /\ out' = out
               /\ ret' = [Ret0 EXCEPT !.op = "move_data", !.exit = 1, !.paired = paired_end]
          ELSE IF mkdir_fails
          THEN /\ out' = out
               /\ ret' = [Ret0 EXCEPT !.op = "move_data", !.exit = 1, !.paired = paired_end]
          ELSE /\ out' = Dir(r.files)
               /\ ret' = [Ret0 EXCEPT !.op = "move_data", !.exit = r.exit,
                                      !.paired = paired_end, !.prefix = prefix,
                                      !.suffix = suffix, !.files = gorder, !.cat = r.cat]
       /\ UNCHANGED <<data, meta, readme, projdir>>

\* the download leaves the directory d behind
FetchData(d) ==
    /\ data' = d
    /\ projdir' = TRUE
    /\ ret' = [Ret0 EXCEPT !.op = "fetch_data"]
    /\ UNCHANGED <<out, meta, readme, proj>>

\* seqdat remove --data-only
RemoveData ==
    /\ data.exists
    /\ data' = AbsentDir
    /\ ret' = [Ret0 EXCEPT !.op = "remove_data"]
    /\ UNCHANGED <<out, meta, readme, projdir, proj>>

----------------------------------------------------------------------------
(* Project.generate_info_sheet and get_existing_info_sheet *)

NL == "\n"
Marker == <<"#", "#", " Additional Info">>

\* str(n) for the sample counts that occur
NumStr(n) ==
    CASE n = 0 -> "0" [] n = 1 -> "1" [] n = 2 -> "2" [] n = 3 -> "3"
      [] n = 4 -> "4" [] n = 5 -> "5" [] OTHER -> "many"

\* the f-string info_sheet
info_sheet(p) ==
    LET num_samples == IF Falsy(p.samples) THEN None ELSE NumStr(Len(p.samples.items))
    IN <<NL, "#", " ", p.name, NL,
         NL,
         "- Owner: ", p.owner, NL,
         "- Run Type: ", p.run_type, NL,
         "- Number of Samples: ", num_samples, NL,
         NL>>

\* the default info_sheet_cont
default_cont == Marker \o <<NL, "...">>

RECURSIVE Lines(_)
\* iterating a text file: the lines, each with its line end
Lines(text) ==
    IF text = <<>> THEN <<>>
    ELSE LET i == FirstIndex(text, NL) IN
         IF i = 0 THEN <<text>>
         ELSE <<SubSeq(text, 1, i)>> \o Lines(SubSeq(text, i + 1, Len(text)))

RECURSIVE Join(_)
\* the concatenation of a list of str
Join(ls) == IF ls = <<>> THEN <<>> ELSE Head(ls) \o Join(Tail(ls))

\* get_existing_info_sheet: `found` is FALSE when next(f) runs off the end of
\* the file (StopIteration)
get_existing_info_sheet(text) ==
    LET ls == Lines(text)
        hit == {i \in 1..Len(ls) : Contains(Marker, ls[i])}
    IN IF hit = {}
       THEN [found |-> FALSE, cont |-> <<>>]
       ELSE LET k == CHOOSE i \in hit : \A j \in hit : i <= j
            IN [found |-> TRUE,
                cont |-> Marker \o <<NL>> \o Join(SubSeq(ls, k + 1, Len(ls)))]

\* generate_info_sheet; answer is what Confirm.ask returns when asked
GenerateInfoSheet(answer) ==
    LET e == get_existing_info_sheet(readme.content) IN
    /\ projdir' = TRUE
    /\ IF readme.exists
       THEN IF ~e.found
            THEN /\ readme' = readme
                 /\ ret' = [Ret0 EXCEPT !.op = "generate_info_sheet", !.exit = 1,
                                        !.raised = "StopIteration"]
            ELSE /\ readme' = IF answer THEN File(info_sheet(proj) \o e.cont) ELSE readme
                 /\ ret' = [Ret0 EXCEPT !.op = "generate_info_sheet", !.asked = TRUE,
                                        !.answer = answer, !.wrote = answer]
       ELSE /\ readme' = readme
            /\ ret' = [Ret0 EXCEPT !.op = "generate_info_sheet"]
    /\ UNCHANGED <<data, out, meta, proj>>

\* the lines a user writes into the info document
LineTexts == {<<"x">>, Marker, <<"x">> \o Marker}

RECURSIVE TextsOf(_)
\* the texts of exactly n lines, each ended by a line end
TextsOf(n) ==
    IF n = 0 THEN {<<>>}
    ELSE {t \o l \o <<NL>> : t \in TextsOf(n - 1), l \in LineTexts}

\* the documents a user can leave: up to MaxLines lines, the last line end optional
Documents ==
    LET full == UNION {TextsOf(n) : n \in 0..MaxLines}
    IN full \cup {SubSeq(t, 1, Len(t) - 1) : t \in full \ {<<>>}}

\* seqdat info --edit: the user rewrites an existing info document
EditInfo(text) ==
    /\ readme.exists
    /\ readme' = File(text)
    /\ ret' = [Ret0 EXCEPT !.op = "edit_info"]
    /\ UNCHANGED <<data, out, meta, projdir, proj>>

----------------------------------------------------------------------------
(* The operations with their inputs *)

Prefixes == {<<>>, <<"p">>}
Suffixes_ == {<<".", "raw">>, <<>>}

DoFromPrompt ==
    \E owner \in Owners, run_type \in RunTypes \cup {None}, answer \in BOOLEAN :
        FromPrompt(owner, run_type, answer)

DoFromMetadata == FromMetadata

DoSaveMetadata == \E answer \in BOOLEAN : SaveMetadata(answer)

\* Prompt.ask(default=v) gives what is typed, or v
DoUpdateMetadata ==
    \E owner \in Owners \cup {proj.owner}, run_type \in RunTypes \cup {proj.run_type},
       answer \in BOOLEAN :
        UpdateMetadata(owner, run_type, answer)

DoFetchData == \E d \in DataDirs : FetchData(d)

DoRemoveData == RemoveData

DoIdentifySamples == \E order \in Orders(walk(<<>>)) : IdentifySamples(order)

DoMoveData ==
    \E prefix \in Prefixes, suffix \in Suffixes_, paired_end \in BOOLEAN,
       order \in Orders(data.files) :
        MoveData(prefix, suffix, paired_end, order)

DoGenerateInfoSheet == \E answer \in BOOLEAN : GenerateInfoSheet(answer)

DoEditInfo == \E text \in Documents : EditInfo(text)

\* the project object right after `seqdat init` has asked its questions
NewProjects ==
    {Project(ProjectName, owner, run_type, NoneList) :
        owner \in Owners, run_type \in RunTypes \cup {None}}

----------------------------------------------------------------------------
(* The whole program: every operation, from an empty database *)

Init ==
    /\ data = AbsentDir
    /\ out \in {AbsentDir, Dir({}), Dir({OutFile(<<"old">>, <<9>>)})}
    /\ meta = Absent
    /\ readme \in {Absent} \cup {File(t) : t \in Documents}
    /\ projdir = readme.exists
    /\ proj \in NewProjects
    /\ ret = Ret0

Next ==
    \/ DoFromPrompt
    \/ DoFromMetadata
    \/ DoSaveMetadata
    \/ DoUpdateMetadata
    \/ DoFetchData
    \/ DoRemoveData
    \/ DoIdentifySamples
    \/ DoMoveData
    \/ DoGenerateInfoSheet
    \/ DoEditInfo

Spec == Init /\ [][Next]_vars

----------------------------------------------------------------------------
(* Consolidation: the data directory, the sample list, the output directory *)

\* the sample lists identify_samples can have left in the project
SampleLists ==
    {NoneList} \cup
    {List(sample_list(CHOOSE o \in Orders(d.files) : TRUE)) : d \in DataDirs}

InitMove ==
    /\ data \in DataDirs \cup {AbsentDir}
    /\ out \in {AbsentDir, Dir({}), Dir({OutFile(<<"old">>, <<9>>)})}
    /\ meta = Absent
    /\ readme = Absent
    /\ projdir = TRUE
    /\ proj \in {Project(ProjectName, "o1", None, l) : l \in SampleLists}
    /\ ret = Ret0

NextMove ==
    \/ DoRemoveData
    \/ DoIdentifySamples
    \/ DoMoveData

SpecMove == InitMove /\ [][NextMove]_vars

----------------------------------------------------------------------------
(* Metadata: the project object and meta.yml *)

SmallDataDirs ==
    {AbsentDir} \cup
    {Dir({f}) : f \in {g \in FileUniverse : g.bytes = <<1>>}} \cup
    {Dir({f \in FileUniverse : f.dir = <<>> /\ Len(f.bytes) <= 1 /\ Len(f.name) <= 10})}

InitMeta ==
    /\ data \in SmallDataDirs
    /\ out = AbsentDir
    /\ meta = Absent
    /\ readme = Absent
    /\ projdir = data.exists
    /\ proj \in NewProjects
    /\ ret = Ret0

NextMeta ==
    \/ DoFromPrompt
    \/ DoFromMetadata
    \/ DoSaveMetadata
    \/ DoUpdateMetadata
    \/ DoIdentifySamples

SpecMeta == InitMeta /\ [][NextMeta]_vars

----------------------------------------------------------------------------
(* The info document: the project object and README.md *)

InitInfo ==
    /\ data \in SmallDataDirs
    /\ out = AbsentDir
    /\ meta = Absent
    /\ readme \in {Absent} \cup {File(t) : t \in Documents}
    /\ projdir = (data.exists \/ readme.exists)
    /\ proj \in NewProjects
    /\ ret = Ret0

NextInfo ==
    \/ DoFromPrompt
    \/ DoIdentifySamples
    \/ DoGenerateInfoSheet
    \/ DoEditInfo

SpecInfo == InitInfo /\ [][NextInfo]_vars

----------------------------------------------------------------------------
(* Consolidation: properties, checked under SpecMove *)

\* the files glob delivered that belong to sample s and carry the marker m
Group(files, s, m) ==
    SelectSeq(files, LAMBDA f : sample_of(f) = s /\ Contains(m, f.name))

\* the bytes of a list of files, one after the other
BytesOf(files) == Join([i \in 1..Len(files) |-> files[i].bytes])

\* the file named n of a directory content, as a set (empty when there is none)
Named(dir, n) == {f \in dir : f.name = n}

\* C1: unpaired consolidation over data with an R2 file among the inputs aborts
\* and leaves no output file for any sample in the output directory.
C1_UnpairedAbortsWithNoOutput ==
    (/\ ret.op = "move_data"
     /\ ~ret.paired
     /\ \E f \in glob : Contains(R2Marker, f.name))
    => (/\ ret.exit = 1
        /\ ~\E f \in out.files : EndsWith(f.name, FastqGz))

\* C2: consolidation into an output directory that already exists aborts, invokes
\* no concatenation and leaves the directory's content as it was.
C2_ExistingOutputDirUntouched ==
    [][(out.exists /\ ret'.op = "move_data")
        => (out' = out /\ ret'.exit = 1 /\ ret'.cat = <<>>)]_vars

\* a consolidation was refused because of a non-empty output directory while
\* there were samples and files to consolidate
C2_Witness ==
    /\ ret.op = "move_data"
    /\ ret.exit = 1
    /\ out = Dir({OutFile(<<"old">>, <<9>>)})
    /\ ~Falsy(proj.samples)
    /\ glob # {}

\* C3: in paired-end mode every sample gets exactly two outputs, the R1 output
\* holding the bytes of its R1 files in the supplied order and the R2 output those
\* of its R2 files; an output of an empty group exists with zero length.
C3_PairedOutputs ==
    (ret.op = "move_data" /\ ret.paired /\ ret.exit = 0)
    => LET samples == {sample_of(f) : f \in ToSet(ret.files)}
       IN /\ \A s \in samples :
                /\ Named(out.files, s \o <<".", "R", "1", ".", "raw">> \o FastqGz)
                     = {OutFile(s \o <<".", "R", "1", ".", "raw">> \o FastqGz,
                                BytesOf(Group(ret.files, s, R1Marker)))}
                /\ Named(out.files, ret.prefix \o s \o <<".", "R", "2">> \o ret.suffix \o FastqGz)
                     = {OutFile(ret.prefix \o s \o <<".", "R", "2">> \o ret.suffix \o FastqGz,
                                BytesOf(Group(ret.files, s, R2Marker)))}
          /\ Cardinality(out.files) = 2 * Cardinality(samples)

\* a paired-end consolidation joined two R1 files against the order of their
\* names and created a zero-length R2 output
C3_Witness ==
    /\ ret.op = "move_data" /\ ret.paired /\ ret.exit = 0
    /\ \E f \in out.files : f.bytes = <<2, 3, 1>>
    /\ \E f \in out.files : f.bytes = <<>> /\ Contains(<<".", "R", "2">>, f.name)

\* C8: identify_samples sets samples to the sorted list, without duplicates, of
\* the segment before the first "_" of every file at any depth whose name ends
\* in ".fastq.gz".
C8_SamplesOfAllFastqGz ==
    (ret.op = "identify_samples" /\ data.exists)
    => proj.samples =
         List(Sorted({sample_of(f) : f \in {g \in data.files : EndsWith(g.name, FastqGz)}}))

\* C10: without a data directory identify_samples raises nothing and leaves
\* samples empty, whatever it held before.
C10_MissingDataGivesEmptySamples ==
    (ret.op = "identify_samples" /\ ~data.exists)
    => (ret.raised = "" /\ Falsy(proj.samples))

\* the samples of the files glob delivered
GlobSamples(files) == {sample_of(f) : f \in ToSet(files)}

\* C11: when the concatenation of one sample fails, consolidation goes on:
\* cat_fastqgz is still invoked for every remaining sample, and the samples that
\* can be concatenated have their output.
C11_ContinuesAfterFailedSample ==
    (/\ ret.op = "move_data"
     /\ ~ret.paired
     /\ \E f \in ToSet(ret.files) : Contains(R2Marker, f.name))
    => /\ ToSet(ret.cat) = GlobSamples(ret.files)
       /\ \A s \in GlobSamples(ret.files) :
             Group(ret.files, s, R2Marker) = <<>>
             => Named(out.files, s \o <<".", "raw">> \o FastqGz) # {}

\* no element occurs twice in seq
NoDuplicates(seq) == \A i, j \in 1..Len(seq) : seq[i] = seq[j] => i = j

\* C12: consolidation re-scans samples only when it is unset or empty, fails
\* without creating the output directory when it is still empty, and on success
\* has invoked cat_fastqgz exactly once for each of the project's samples and
\* for no other identifier.
C12_ConcatenatesTheProjectSamples ==
    [][(ret'.op = "move_data")
        => /\ ~Falsy(proj.samples) => proj' = proj
           /\ Falsy(proj'.samples) => (out' = out /\ ret'.exit = 1)
           /\ ret'.exit = 0
                => /\ NoDuplicates(ret'.cat)
                   /\ ToSet(ret'.cat) = ToSet(proj'.samples.items)]_vars

----------------------------------------------------------------------------
(* Metadata: properties, checked under SpecMeta *)

SaveOps == {"save_metadata", "update_metadata"}

\* C4: a save over an existing, different metadata file replaces it with the
\* whole new record when the answer is yes and keeps the old file when it is no;
\* a save never leaves anything but the old file or the whole record.
C4_ReplaceOnlyOnConfirmation ==
    [][(ret'.op \in SaveOps)
        => /\ meta' \in {meta, File(yaml_dump(instance_dict(proj')))}
           /\ (meta.exists /\ meta.content # yaml_dump(instance_dict(proj')))
                => /\ ret'.answer => meta' = File(yaml_dump(instance_dict(proj')))
                   /\ ~ret'.answer => meta' = meta]_vars

\* a confirmed save has replaced a metadata file that held another record
C4_Witness ==
    /\ ret.op \in SaveOps
    /\ ret.asked /\ ret.answer /\ ret.wrote
    /\ meta = File(yaml_dump(instance_dict(proj)))

\* C5: saving a record equal to the persisted one writes nothing and asks nothing.
C5_SameRecordIsNoOp ==
    [][(ret'.op \in SaveOps /\ meta.exists
          /\ meta.content = yaml_dump(instance_dict(proj')))
        => (meta' = meta /\ ~ret'.wrote /\ ~ret'.asked)]_vars

\* a save found the file equal to the record and did nothing
C5_Witness ==
    /\ ret.op = "save_metadata"
    /\ meta.exists
    /\ ~ret.wrote /\ ~ret.asked

\* C9: from_metadata right after a save that wrote yields the saved project, and
\* the document written has exactly the keys name, owner, run_type, samples.
C9_SaveLoadRoundTrip ==
    [][(ret.op \in SaveOps /\ ret.wrote /\ ret'.op = "from_metadata")
        => /\ proj' = proj
           /\ Len(meta.content) = 4
           /\ {meta.content[i].key : i \in 1..Len(meta.content)}
                = {"name", "owner", "run_type", "samples"}]_vars

\* a project with a sample list and no run type was loaded from its metadata file
C9_Witness ==
    /\ ret.op = "from_metadata"
    /\ meta.exists
    /\ ~Falsy(proj.samples)
    /\ proj.run_type = None

----------------------------------------------------------------------------
(* The info document: properties, checked under SpecInfo *)

\* a line without its line end
Chomp(l) == IF l # <<>> /\ l[Len(l)] = NL THEN SubSeq(l, 1, Len(l) - 1) ELSE l

HasMarkerLine(text) == \E i \in 1..Len(Lines(text)) : Chomp(Lines(text)[i]) = Marker

\* the first line equal to the marker and everything after it
TailOf(text) ==
    LET ls == Lines(text)
        k == CHOOSE i \in 1..Len(ls) :
                Chomp(ls[i]) = Marker /\ \A j \in 1..(i - 1) : Chomp(ls[j]) # Marker
    IN Join(SubSeq(ls, k, Len(ls)))

C7_TailPreserved ==
    [][(ret'.op = "generate_info_sheet" /\ readme.exists /\ HasMarkerLine(readme.content))
        => IF ret'.answer
           THEN HasMarkerLine(readme'.content)
                /\ TailOf(readme'.content) = TailOf(readme.content)
           ELSE readme' = readme]_vars

====
